---- MODULE Spec2Model ----
(***************************************************************************)
(* Pegmatite AST construction (src/ast.hh, src/ast.cc): the reduction      *)
(* stack, the member slots that claim entries from its tail, the container *)
(* that drives them, the rule binding table and the top-level parse.       *)
(***************************************************************************)
EXTENDS Integers, Sequences, FiniteSets, TLC

\* ------------------------------------------------------------------ bounds
\* Length of the input: positions are 0..MaxPos.
MaxPos == 2
\* Number of AST nodes one behaviour may allocate.
MaxNodes == 3
\* Number of BindAST declarations in the delegate under construction.
MaxBinds == 2
\* Length of the longest stack a list member is made to claim from.
MaxRun == 3

\* ------------------------------------------------------------ basic values
\* The null pointer; node ids are 1..Len(heap).
NULL == 0

Positions == 0..MaxPos

\* InputRange: <<begin, end>> of a non-empty match.
Ranges == {<<b, e>> : b \in Positions, e \in Positions} \ {q \in Positions \X Positions : q[1] >= q[2]}

\* The whole input, matched by the root rule.
WholeInput == <<0, MaxPos>>

\* ----------------------------------------------------------- AST classes
\* The client's AST classes.  Term, Num, Sum, ... are ASTContainer
\* subclasses (Term and Num declare no members); Op is a leaf adapter in the
\* manner of ASTString.
SlotFree == {"Term", "Num", "Op"}

Composite == {"Sum", "Pair", "Triple", "Neg", "Tail", "Call", "Paren"}

\* A client container that overrides construct: it runs
\* ASTContainer::construct and returns false when a member is left unset.
Overriding == {"Strict"}

Classes == SlotFree \cup Composite \cup Overriding

\* superclass argument of each class's PEGMATITE_RTTI(thisclass, superclass)
Parent(c) ==
    CASE c = "ASTContainer" -> "ASTNode"
      [] c = "Op"           -> "ASTNode"
      [] c = "Term"         -> "ASTContainer"
      [] OTHER              -> "Term"

\* isa comparing with the class's own classKind() only, the superclass
\* never asked.
isaOwnKind(c, x) == x = c

\* isa(char *x): (x == classKind()) || superclass::isa(x); the root
\* implementation in ASTNode compares with its own classKind() only.
RECURSIVE isa(_, _)
isa(c, x) ==
    IF c = "ASTNode" THEN x = "ASTNode"
    ELSE (x = c) \/ isa(Parent(c), x)

IsContainer(c) == isa(c, "ASTContainer")

\* A member field of a container class: its wrapper and its template type.
Member(k, t) == [kind |-> k, type |-> t]

\* The member fields each class declares, in declaration order.
Decl(c) ==
    CASE c = "Sum"    -> <<Member("ptr", "Term"), Member("list", "Term")>>
      [] c = "Pair"   -> <<Member("ptr", "Term"), Member("ptr", "Op")>>
      [] c = "Triple" -> <<Member("ptr", "Op"), Member("ptr", "Num"), Member("ptr", "Term")>>
      [] c = "Neg"    -> <<Member("opt", "Op"), Member("ptr", "Term")>>
      [] c = "Tail"   -> <<Member("ptr", "Term"), Member("opt", "Num")>>
      [] c = "Call"   -> <<Member("child", "Op"), Member("list", "Num")>>
      [] c = "Paren"  -> <<Member("ptr", "Term")>>
      [] c = "Strict" -> <<Member("ptr", "Term"), Member("ptr", "Op")>>
      [] OTHER        -> <<>>

\* ------------------------------------------------------------------ state
VARIABLES
    phase,      \* where the program is
    binds,      \* the BindAST declarations run so far, in order
    handlers,   \* ASTParserDelegate::handlers
    current,    \* the thread-local `current` container
    heap,       \* every node allocated so far, by id
    st,         \* the ASTStack of the parse
    errs,       \* the calls made to the ErrorReporter
    last,       \* the latest reduction callback: its node, range, outcome and claims
    eng,        \* the grammar engine: ranges reduced, root matched, how and with what stack it returned
    result,     \* what the untyped parse returned
    diag,       \* the class names parse dumped to stderr
    ast,        \* the caller's pointer given to the typed parse
    typed,      \* the typed parse: its T, what it returned, whether it wrote ast
    thr         \* threads parsing over one delegate: each one's stack, `current` and position

vars == <<phase, binds, handlers, current, heap, st, errs, last, eng, result, diag, ast, typed, thr>>

\* ------------------------------------------------------------- the heap
\* A member field as constructed: ASTPtr() holds nullptr, ASTList() is
\* empty, ASTChild() holds a default T (val = NULL: nothing adopted yet).
NewSlot(d) == [kind |-> d.kind, type |-> d.type, ptr |-> NULL, items |-> <<>>, val |-> NULL]

\* new T(): ASTContainer() runs first, then every member field's ASTMember()
\* appends itself to current->members, in declaration order.
NewNode(c) ==
    [cls     |-> c,
     slots   |-> [i \in 1..Len(Decl(c)) |-> NewSlot(Decl(c)[i])],
     members |-> IF IsContainer(c) THEN [i \in 1..Len(Decl(c)) |-> i] ELSE <<>>,
     live    |-> TRUE]

\* The nodes a node owns through its ASTPtr and ASTList members.
Children(h, id) ==
    UNION {({h[id].slots[i].ptr} \ {NULL}) \cup {h[id].slots[i].items[j] : j \in 1..Len(h[id].slots[i].items)}
           : i \in 1..Len(h[id].slots)}

RECURSIVE Subtree(_, _)
Subtree(h, id) == {id} \cup UNION {Subtree(h, c) : c \in Children(h, id)}

\* delete of a node (a unique_ptr going out of scope): the node and all it
\* owns are destroyed; deleting nullptr does nothing.
Destroy(h, id) ==
    IF id = NULL THEN h
    ELSE [n \in 1..Len(h) |-> IF n \in Subtree(h, id) THEN [h[n] EXCEPT !.live = FALSE] ELSE h[n]]

\* get_as<T>(): this ? (isa<T>() ? this : nullptr) : nullptr
get_as(h, this, T) ==
    IF this # NULL THEN (IF isa(h[this].cls, T) THEN this ELSE NULL) ELSE NULL

\* ------------------------------------------------------ claiming from the stack
Entry(r, n) == [range |-> r, node |-> n]

Back(s) == s[Len(s)]

PopBack(s) == SubSeq(s, 1, Len(s) - 1)

\* OutOfRange without the test of the entry's end.
OutOfRangeBeginOnly(childRange, r) == childRange[1] < r[1]

\* (childRange.begin() < r.begin()) || (childRange.end() > r.end())
OutOfRange(childRange, r) == (childRange[1] < r[1]) \/ (childRange[2] > r[2])

\* What popFromASTStack returns (first, second), the stack it leaves, the
\* ranges it reported to err, and whether its assert stopped the program.
Popped(f, n, s, rep, ab) == [first |-> f, second |-> n, st |-> s, reports |-> rep, abort |-> ab]

\* PopBackAs without the early return for an optional member whose tail
\* entry is of another type.
PopBackAsNoEarlyReturn(Optional, r, s, obj) ==
    IF OutOfRange(Back(s).range, r)
    THEN IF Optional THEN Popped(TRUE, NULL, s, <<>>, FALSE)
         ELSE Popped(FALSE, NULL, s, <<Back(s).range>>, FALSE)
    ELSE IF obj = NULL /\ ~Optional THEN Popped(FALSE, NULL, s, <<Back(s).range>>, FALSE)
    ELSE Popped(TRUE, obj, PopBack(s), <<>>, FALSE)

\* popFromASTStack once the stack is known not to be empty, obj being
\* node->get_as<T>() of the tail entry.
PopBackAs(Optional, r, s, obj) ==
    IF OutOfRange(Back(s).range, r)
    THEN IF Optional THEN Popped(TRUE, NULL, s, <<>>, FALSE)
         ELSE Popped(FALSE, NULL, s, <<Back(s).range>>, FALSE)
    ELSE IF obj = NULL /\ ~Optional THEN Popped(FALSE, NULL, s, <<Back(s).range>>, FALSE)
    ELSE IF Optional /\ obj = NULL THEN Popped(FALSE, NULL, s, <<>>, FALSE)
    ELSE Popped(TRUE, obj, PopBack(s), <<>>, FALSE)

\* popFromASTStack without the assert: an empty stack is an ordinary
\* failure.
popFromASTStackNoAssert(T, Optional, r, s, h) ==
    IF s = <<>> THEN Popped(FALSE, NULL, s, <<>>, FALSE)
    ELSE PopBackAs(Optional, r, s, get_as(h, Back(s).node, T))

popFromASTStack(T, Optional, r, s, h) ==
    IF s = <<>> /\ Optional THEN Popped(FALSE, NULL, s, <<>>, FALSE)
    ELSE IF s = <<>> THEN Popped(FALSE, NULL, s, <<>>, TRUE)
    ELSE PopBackAs(Optional, r, s, get_as(h, Back(s).node, T))

\* ListLoop with push_back in place of push_front.
RECURSIVE ListLoopPushBack(_, _, _, _, _)
ListLoopPushBack(T, r, s, h, items) ==
    IF s = <<>> THEN [ok |-> TRUE, st |-> s, items |-> items]
    ELSE IF OutOfRange(Back(s).range, r) THEN [ok |-> TRUE, st |-> s, items |-> items]
    ELSE IF get_as(h, Back(s).node, T) = NULL THEN [ok |-> FALSE, st |-> s, items |-> items]
    ELSE ListLoopPushBack(T, r, PopBack(s), h, Append(items, get_as(h, Back(s).node, T)))

\* The loop of ASTList<T>::construct: what it returns, the stack it leaves
\* and the list it has built.
RECURSIVE ListLoop(_, _, _, _, _)
ListLoop(T, r, s, h, items) ==
    IF s = <<>> THEN [ok |-> TRUE, st |-> s, items |-> items]
    ELSE IF OutOfRange(Back(s).range, r) THEN [ok |-> TRUE, st |-> s, items |-> items]
    ELSE IF get_as(h, Back(s).node, T) = NULL THEN [ok |-> FALSE, st |-> s, items |-> items]
    ELSE ListLoop(T, r, PopBack(s), h, <<get_as(h, Back(s).node, T)>> \o items)

\* The outcome of one member's construct: the stack and heap it leaves, what
\* it returned, what it reported, whether an assert stopped the program.
Claimed(s, h, ok, rep, ab) == [st |-> s, heap |-> h, ok |-> ok, reports |-> rep, abort |-> ab]

\* SwapIn without the swap: the popped node is deleted with `popped`.
SwapInNoSwap(id, i, h, popped) ==
    Claimed(popped.st, Destroy(h, popped.second), popped.first, popped.reports, popped.abort)

\* if (popped.first) this->swap(popped.second); return popped.first;
\* what the member held before is deleted with `popped`.
SwapIn(id, i, h, popped) ==
    Claimed(popped.st,
            IF popped.first
            THEN Destroy([h EXCEPT ![id].slots[i].ptr = popped.second], h[id].slots[i].ptr)
            ELSE h,
            popped.first, popped.reports, popped.abort)

\* ASTPtr<T, Optional>::construct on member i of node id.
ASTPtrConstruct(id, i, Optional, r, s, h) ==
    SwapIn(id, i, h, popFromASTStack(h[id].slots[i].type, Optional, r, s, h))

\* if (popped.first) this->T::operator=(std::move(*popped.second.get()));
\* return popped.first; the popped node is deleted with `popped`.
MoveIn(id, i, h, popped) ==
    Claimed(popped.st,
            IF popped.first
            THEN Destroy([h EXCEPT ![id].slots[i].val = popped.second], popped.second)
            ELSE h,
            popped.first, popped.reports, popped.abort)

\* ASTChild<T>::construct on member i of node id.
ASTChildConstruct(id, i, r, s, h) ==
    MoveIn(id, i, h, popFromASTStack(h[id].slots[i].type, FALSE, r, s, h))

\* ListIn with the list filled only when the loop has succeeded.
ListInOnSuccess(id, i, h, loop) ==
    Claimed(loop.st, IF loop.ok THEN [h EXCEPT ![id].slots[i].items = loop.items] ELSE h, loop.ok, <<>>, FALSE)

\* The list as ASTList<T>::construct leaves it.
ListIn(id, i, h, loop) ==
    Claimed(loop.st, [h EXCEPT ![id].slots[i].items = loop.items], loop.ok, <<>>, FALSE)

\* ASTList<T>::construct on member i of node id.
ASTListConstruct(id, i, r, s, h) ==
    ListIn(id, i, h, ListLoop(h[id].slots[i].type, r, s, h, h[id].slots[i].items))

\* member->construct(r, st, err): the virtual call.
MemberConstruct(id, i, r, s, h) ==
    CASE h[id].slots[i].kind = "ptr"   -> ASTPtrConstruct(id, i, FALSE, r, s, h)
      [] h[id].slots[i].kind = "opt"   -> ASTPtrConstruct(id, i, TRUE, r, s, h)
      [] h[id].slots[i].kind = "child" -> ASTChildConstruct(id, i, r, s, h)
      [] h[id].slots[i].kind = "list"  -> ASTListConstruct(id, i, r, s, h)

\* One claim as the log keeps it: the member, the claimer's range, the stack
\* before and after, what construct returned and reported, the member after.
ClaimRecord(id, i, r, s, c) ==
    [slot |-> i, kind |-> c.heap[id].slots[i].kind, type |-> c.heap[id].slots[i].type,
     r |-> r, before |-> s, after |-> c.st, ok |-> c.ok, reports |-> c.reports,
     abort |-> c.abort, got |-> c.heap[id].slots[i]]

\* The reporters a program has at hand: the library's default one and one
\* the caller of parse has made.
Reporters == {"defaultErrorReporter", "callerReporter"}

\* The `err` a BindAST lambda has captured: the constructor's second
\* argument, left to its default by a field declared with the rule alone.
Captured == "defaultErrorReporter"

\* err(childRange, message): the report, and the reporter that receives it.
Report(range, T) == [range |-> range, type |-> T, to |-> Captured]

\* success |= member->construct(r, st, err)
Accumulate(success, ok) == success \/ ok

\* Visit from begin() to end().
VisitForward(n, k) == k

\* The position in `members` of the k-th member visited: rbegin() to rend().
Visit(n, k) == n + 1 - k

\* The machine m = [st, heap, errs, claims, success, abort] after member i
\* of node id has claimed with outcome c.
Step(id, i, r, m, c) ==
    [st      |-> c.st,
     heap    |-> c.heap,
     errs    |-> m.errs \o [j \in 1..Len(c.reports) |-> Report(c.reports[j], m.heap[id].slots[i].type)],
     claims  |-> Append(m.claims, ClaimRecord(id, i, r, m.st, c)),
     success |-> IF c.abort THEN m.success ELSE Accumulate(m.success, c.ok),
     abort   |-> c.abort]

\* The loop leaving at the first member whose claim fails.
RECURSIVE MembersUntilFailure(_, _, _, _)
MembersUntilFailure(id, r, k, m) ==
    IF k > Len(m.heap[id].members) \/ m.abort \/ (m.claims # <<>> /\ ~m.claims[Len(m.claims)].ok) THEN m
    ELSE MembersUntilFailure(id, r, k + 1,
            Step(id, m.heap[id].members[Visit(Len(m.heap[id].members), k)], r, m,
                 MemberConstruct(id, m.heap[id].members[Visit(Len(m.heap[id].members), k)], r, m.st, m.heap)))

\* The loop of ASTContainer::construct from the k-th member visited on.
RECURSIVE Members(_, _, _, _)
Members(id, r, k, m) ==
    IF k > Len(m.heap[id].members) \/ m.abort THEN m
    ELSE Members(id, r, k + 1,
            Step(id, m.heap[id].members[Visit(Len(m.heap[id].members), k)], r, m,
                 MemberConstruct(id, m.heap[id].members[Visit(Len(m.heap[id].members), k)], r, m.st, m.heap)))

\* The pass without members.clear().
ClearNothing(id, m) == m

\* members.clear(), unless an assert has stopped the program.
Clear(id, m) == IF m.abort THEN m ELSE [m EXCEPT !.heap[id].members = <<>>]

\* ASTContainer::construct: every member claims, last declared first; then
\* members.clear().
ASTContainerConstruct(id, r, s, h, e) ==
    Clear(id, Members(id, r, 1, [st |-> s, heap |-> h, errs |-> e, claims |-> <<>>, success |-> TRUE, abort |-> FALSE]))

\* The override of construct in an Overriding class, m being the machine
\* ASTContainer::construct has left: false unless every member holds a node.
Validated(id, m) ==
    IF m.abort THEN m
    ELSE [m EXCEPT !.success = m.success /\ \A i \in 1..Len(m.heap[id].slots) : m.heap[id].slots[i].ptr # NULL]

\* obj->construct(range, *st, err) for a node of any class: a container runs
\* ASTContainer::construct (an Overriding one then checks its members); a
\* leaf adapter reads its range and returns true.
Construct(id, r, s, h, e) ==
    IF h[id].cls \in Overriding THEN Validated(id, ASTContainerConstruct(id, r, s, h, e))
    ELSE IF IsContainer(h[id].cls) THEN ASTContainerConstruct(id, r, s, h, e)
    ELSE [st |-> s, heap |-> h, errs |-> e, claims |-> <<>>, success |-> TRUE, abort |-> FALSE]

\* ------------------------------------------------------ the binding table
\* The grammar's rules: the root rule and a rule for its operands.
Rules == {"root", "term"}

\* The node classes a BindAST<T> is declared with.
BindClasses == {"Term", "Op", "Sum", "Neg", "Strict"}

\* get_parse_proc returns nullptr for a rule with no handler.
NoProc == "nullptr"

\* ASTParserDelegate::get_parse_proc
get_parse_proc(r) == handlers[r]

\* set_parse_proc that keeps a handler already registered: handlers.insert({&r, p})
set_parse_procInsert(hs, r, p) == IF hs[r] = NoProc THEN [hs EXCEPT ![r] = p] ELSE hs

\* ASTParserDelegate::set_parse_proc: handlers[&r] = p
set_parse_proc(hs, r, p) == [hs EXCEPT ![r] = p]

\* ------------------------------------------------------------- callbacks
\* T *obj = new T(); obj->construct(range, *st, err) of the BindAST<T> lambda,
\* run on the current stack: the machine it leaves.
Run(c, r) == Construct(Len(heap) + 1, r, st, Append(heap, NewNode(c)), errs)

\* The record kept of a callback.
NoCall == [node |-> NULL, cls |-> "none", r |-> <<0, 0>>, before |-> <<>>, after |-> <<>>, ok |-> FALSE, abort |-> FALSE, claims |-> <<>>]

\* Pushed with the new entry put at the head of the stack.
PushedFront(r, id, m) == IF m.abort \/ ~m.success THEN m.st ELSE <<Entry(r, id)>> \o m.st

\* The stack after the lambda: st->push_back(make_pair(range, obj)) when
\* construct returned true.
Pushed(r, id, m) == IF m.abort \/ ~m.success THEN m.st ELSE Append(m.st, Entry(r, id))

\* The BindAST<T> lambda on range r, m being the machine its construct
\* leaves: allocate, construct, push on success.
Lambda(c, r, id, m) ==
    /\ heap' = m.heap
    /\ current' = IF IsContainer(c) THEN id ELSE current
    /\ errs' = m.errs
    /\ st' = Pushed(r, id, m)
    /\ last' = [node |-> id, cls |-> c, r |-> r, before |-> st, after |-> Pushed(r, id, m),
                ok |-> m.success, abort |-> m.abort, claims |-> m.claims]

\* The reduction callback BindAST<T> registers.  An assert failing inside
\* construct ends the program: `to` is the phase the program is in after a
\* callback that returns.
Callback(c, r, m, to) ==
    /\ Lambda(c, r, Len(heap) + 1, m)
    /\ phase' = IF m.abort THEN "aborted" ELSE to

\* ---------------------------------------------------------------- actions
NoTyped == [T |-> "none", ret |-> "none", wrote |-> FALSE, node |-> NULL]

Idle ==
    /\ binds = <<>>
    /\ handlers = [r \in Rules |-> NoProc]
    /\ current = NULL
    /\ errs = <<>>
    /\ last = NoCall
    /\ eng = [done |-> {}, root |-> FALSE, fin |-> "none", stack |-> <<>>, err |-> "none"]
    /\ result = NULL
    /\ diag = <<>>
    /\ ast = NULL
    /\ typed = NoTyped
    /\ thr = <<>>

\* A delegate under construction, before its BindAST fields have run.
Init ==
    /\ phase = "setup"
    /\ heap = <<>>
    /\ st = <<>>
    /\ Idle

\* BindAST<T>::BindAST(r): registers the lambda for r in the delegate under
\* construction.
BindAST(r, c) ==
    /\ phase = "setup"
    /\ Len(binds) < MaxBinds
    /\ binds' = Append(binds, [rule |-> r, cls |-> c])
    /\ handlers' = set_parse_proc(handlers, r, c)
    /\ UNCHANGED <<phase, current, heap, st, errs, last, eng, result, diag, ast, typed, thr>>

\* parse(input, g, ws, err, d): ASTStack st; and the engine is started with
\* the caller's err.
ParseBegin(err) ==
    /\ phase = "setup"
    /\ phase' = "parsing"
    /\ st' = <<>>
    /\ eng' = [eng EXCEPT !.err = err]
    /\ UNCHANGED <<binds, handlers, current, heap, errs, last, result, diag, ast, typed, thr>>

\* Reductions arrive bottom-up in document order: a match ends no earlier
\* than those before it and either follows or encloses each of them; the
\* root rule's match of the whole input is the last.
InDocumentOrder(r) ==
    \A d \in eng.done : d[2] <= r[2] /\ (d[2] <= r[1] \/ r[1] <= d[1])

\* The engine reduces rule over r and runs the rule's handler, if it has one.
EngineReduce(rule, r) ==
    /\ phase = "parsing"
    /\ ~eng.root
    /\ InDocumentOrder(r)
    /\ rule = "root" => r = WholeInput
    /\ IF get_parse_proc(rule) = NoProc
       THEN /\ eng' = [eng EXCEPT !.done = eng.done \cup {r}, !.root = (rule = "root")]
            /\ UNCHANGED <<phase, current, heap, st, errs, last>>
       ELSE /\ Len(heap) < MaxNodes
            /\ Callback(get_parse_proc(rule), r, Run(get_parse_proc(rule), r), phase)
            /\ eng' = [eng EXCEPT !.done = eng.done \cup {r}, !.root = (rule = "root" /\ last'.ok /\ ~last'.abort)]
    /\ UNCHANGED <<binds, handlers, result, diag, ast, typed, thr>>

\* The engine returns: true only when the root rule has matched.
EngineFinish(ok) ==
    /\ phase = "parsing"
    /\ ok => eng.root
    /\ phase' = IF ok THEN "engineOk" ELSE "engineFail"
    /\ eng' = [eng EXCEPT !.fin = IF ok THEN "ok" ELSE "fail", !.stack = st]
    /\ UNCHANGED <<binds, handlers, current, heap, st, errs, last, result, diag, ast, typed, thr>>

\* The nodes the stack's entries still own are deleted with the stack.
RECURSIVE DestroyAll(_, _)
DestroyAll(h, s) ==
    IF s = <<>> THEN h ELSE DestroyAll(Destroy(h, Back(s).node), PopBack(s))

\* ParseReturn without assert(st.size() == 1): st[0] is returned from any
\* stack that has one.
ParseReturnUnchecked ==
    /\ phase \in {"engineOk", "engineFail"}
    /\ IF phase = "engineFail"
       THEN /\ result' = NULL
            /\ phase' = "returned"
            /\ heap' = DestroyAll(heap, st)
            /\ st' = <<>>
            /\ diag' = diag
       ELSE /\ diag' = IF Len(st) > 1 THEN [i \in 1..Len(st) |-> heap[st[i].node].cls] ELSE diag
            /\ IF st = <<>>
               THEN /\ phase' = "aborted"
                    /\ UNCHANGED <<result, heap, st>>
               ELSE /\ result' = st[1].node
                    /\ phase' = "returned"
                    /\ st' = <<>>
                    /\ heap' = DestroyAll(heap, Tail(st))
    /\ UNCHANGED <<binds, handlers, current, errs, last, eng, ast, typed, thr>>

\* The rest of parse(input, g, ws, err, d), once the engine has returned.
ParseReturn ==
    /\ phase \in {"engineOk", "engineFail"}
    /\ IF phase = "engineFail"
       THEN /\ result' = NULL
            /\ phase' = "returned"
            /\ heap' = DestroyAll(heap, st)
            /\ st' = <<>>
            /\ diag' = diag
       ELSE /\ diag' = IF Len(st) > 1 THEN [i \in 1..Len(st) |-> heap[st[i].node].cls] ELSE diag
            /\ IF Len(st) # 1
               THEN /\ phase' = "aborted"
                    /\ UNCHANGED <<result, heap, st>>
               ELSE /\ result' = st[1].node
                    /\ phase' = "returned"
                    /\ st' = <<>>
                    /\ heap' = heap
    /\ UNCHANGED <<binds, handlers, current, errs, last, eng, ast, typed, thr>>

\* The T a caller gives parse<T>: an ancestor of the other node classes, a
\* class apart from them, and a subclass.
Asked == {"Term", "Op", "Sum"}

\* node->get_as<T>() on a null node is undefined: the test of `this` in
\* get_as may run as written, or the build drops it and isa is called
\* through a null object.
NullThis == {"tested", "fault"}

\* parse<T> without node.release(): the local unique_ptr still owns the node
\* when the function returns, and destroys it.
TypedReturnNoRelease(T) ==
    /\ phase = "returned"
    /\ typed = NoTyped
    /\ IF result = NULL
       THEN \E out \in NullThis :
              /\ phase' = IF out = "fault" THEN "crashed" ELSE "typedDone"
              /\ typed' = [T |-> T, ret |-> IF out = "fault" THEN "none" ELSE "false", wrote |-> FALSE, node |-> NULL]
              /\ UNCHANGED <<heap, ast, result>>
       ELSE /\ phase' = "typedDone"
            /\ result' = NULL
            /\ heap' = Destroy(heap, result)
            /\ IF get_as(heap, result, T) # NULL
               THEN /\ ast' = get_as(heap, result, T)
                    /\ typed' = [T |-> T, ret |-> "true", wrote |-> TRUE, node |-> result]
               ELSE /\ typed' = [T |-> T, ret |-> "false", wrote |-> FALSE, node |-> result]
                    /\ ast' = ast
    /\ UNCHANGED <<binds, handlers, current, st, errs, last, eng, diag, thr>>

\* The rest of ASTParserDelegate::parse<T>, once pegmatite::parse has returned.
TypedReturn(T) ==
    /\ phase = "returned"
    /\ typed = NoTyped
    /\ IF result = NULL
       THEN \E out \in NullThis :
              /\ phase' = IF out = "fault" THEN "crashed" ELSE "typedDone"
              /\ typed' = [T |-> T, ret |-> IF out = "fault" THEN "none" ELSE "false", wrote |-> FALSE, node |-> NULL]
              /\ UNCHANGED <<heap, ast, result>>
       ELSE /\ phase' = "typedDone"
            /\ result' = NULL
            /\ IF get_as(heap, result, T) # NULL
               THEN /\ ast' = get_as(heap, result, T)
                    /\ typed' = [T |-> T, ret |-> "true", wrote |-> TRUE, node |-> result]
                    /\ heap' = heap
               ELSE /\ heap' = Destroy(heap, result)
                    /\ typed' = [T |-> T, ret |-> "false", wrote |-> FALSE, node |-> result]
                    /\ ast' = ast
    /\ UNCHANGED <<binds, handlers, current, st, errs, last, eng, diag, thr>>

Next ==
    \/ \E r \in Rules, c \in BindClasses : BindAST(r, c)
    \/ \E err \in Reporters : ParseBegin(err)
    \/ \E rule \in Rules, r \in Ranges : EngineReduce(rule, r)
    \/ \E ok \in BOOLEAN : EngineFinish(ok)
    \/ ParseReturn
    \/ \E T \in Asked : TypedReturn(T)

Spec == Init /\ [][Next]_vars

\* ------------------------------------------- callbacks run on any stack
\* Stacks a caller of the callbacks can hand over: up to MaxNodes - 1
\* entries of member-less nodes over any ranges.
StackOf(cs, rs) == [i \in 1..Len(cs) |-> Entry(rs[i], i)]

InitAny ==
    /\ phase = "api"
    /\ \E n \in 0..(MaxNodes - 1) :
         \E cs \in [1..n -> SlotFree], rs \in [1..n -> Ranges] :
           /\ heap = [i \in 1..n |-> NewNode(cs[i])]
           /\ st = StackOf(cs, rs)
    /\ Idle

\* A reduction callback invoked on the stack, for any class and range.
Reduce(c, r) ==
    /\ phase = "api"
    /\ Callback(c, r, Run(c, r), "reduced")
    /\ UNCHANGED <<binds, handlers, eng, result, diag, ast, typed, thr>>

NextAny == \E c \in Classes, r \in Ranges : Reduce(c, r)

SpecAny == InitAny /\ [][NextAny]_vars

\* The containers that declare a list member.
ListClasses == {c \in Composite : \E i \in DOMAIN Decl(c) : Decl(c)[i].kind = "list"}

\* The ranges rs are those of entries pushed in document order: each ends
\* no earlier than those before it and follows or encloses each of them.
PushedInOrder(rs) ==
    \A i, j \in DOMAIN rs : i < j =>
        rs[i][2] <= rs[j][2] /\ (rs[i][2] <= rs[j][1] \/ rs[j][1] <= rs[i][1])

\* Any stack of up to MaxRun entries that document-order reductions can
\* have left, for the callbacks of ListClasses.
InitLists ==
    /\ phase = "api"
    /\ \E n \in 0..MaxRun :
         \E cs \in [1..n -> SlotFree], rs \in [1..n -> Ranges] :
           /\ PushedInOrder(rs)
           /\ heap = [i \in 1..n |-> NewNode(cs[i])]
           /\ st = StackOf(cs, rs)
    /\ Idle

NextLists == \E c \in ListClasses, r \in Ranges : Reduce(c, r)

SpecLists == InitLists /\ [][NextLists]_vars

\* The state after construct has been called once more on the node of the
\* latest callback, m being the machine that call leaves: the claims it
\* makes are logged after those of the callback.
Again(r, m) ==
    /\ heap' = m.heap
    /\ st' = m.st
    /\ errs' = m.errs
    /\ last' = [last EXCEPT !.claims = last.claims \o m.claims]
    /\ phase' = IF m.abort THEN "aborted" ELSE "again"

\* construct(r, st, err) called a second time, with the same arguments, on
\* the container of the latest callback.
ConstructAgain ==
    /\ phase = "reduced"
    /\ IsContainer(last.cls)
    /\ Again(last.r, Construct(last.node, last.r, st, heap, errs))
    /\ UNCHANGED <<binds, handlers, current, eng, result, diag, ast, typed, thr>>

\* In `members`, a member that is no field of the container itself.
NoField == NULL

\* current->members.push_back(this) through a `current` whose container has
\* been destroyed is undefined: the write may land in the freed vector, or
\* the program faults.
Dangling == {"written", "fault"}

\* ASTMember(): a member constructed on this thread outside the
\* construction of any container, after the latest callback has returned.
StrayMember ==
    /\ phase = "reduced"
    /\ IF current = NULL
       THEN /\ phase' = "aborted"
            /\ heap' = heap
       ELSE IF heap[current].live
       THEN /\ phase' = "strayed"
            /\ heap' = [heap EXCEPT ![current].members = Append(@, NoField)]
       ELSE \E out \in Dangling :
              /\ phase' = IF out = "fault" THEN "crashed" ELSE "strayed"
              /\ heap' = IF out = "fault" THEN heap
                         ELSE [heap EXCEPT ![current].members = Append(@, NoField)]
    /\ UNCHANGED <<binds, handlers, current, st, errs, last, eng, result, diag, ast, typed, thr>>

\* A callback, and then what the program may do with the thread and the
\* node it has left.
NextAfter ==
    \/ \E c \in Classes, r \in Ranges : Reduce(c, r)
    \/ ConstructAgain
    \/ StrayMember

SpecAfter == InitAny /\ [][NextAfter]_vars

\* --------------------------------------------------------------- threads
\* Threads that parse at the same time over one delegate that has been set
\* up, each with its own input and its own ASTStack.
Threads == {"a", "b"}

\* A store to `current` that reaches every thread's copy: `current` as a
\* plain global.
SetCurrentAllThreads(p, t, id) == [u \in Threads |-> [p[u] EXCEPT !.current = id]]

\* current = this, `current` being thread_local: the store reaches the
\* running thread's copy only.
SetCurrent(p, t, id) == [p EXCEPT ![t].current = id]

\* A thread inside parse, its engine started: stack, `current`, the node its
\* callback is building and over which reduction, what its engine has
\* reduced, the callbacks it has run, the registrations its members made,
\* and how parse ended.
ThreadStart ==
    [pc |-> "engine", st |-> <<>>, current |-> NULL, node |-> NULL, rule |-> "none",
     r |-> WholeInput, done |-> {}, root |-> FALSE, hist |-> <<>>, reg |-> <<>>,
     fin |-> "none", final |-> <<>>, res |-> NULL]

InitThreads ==
    /\ phase = "threads"
    /\ handlers \in [Rules -> BindClasses \cup {NoProc}]
    /\ thr = [t \in Threads |-> ThreadStart]
    /\ binds = <<>>
    /\ current = NULL
    /\ heap = <<>>
    /\ st = <<>>
    /\ errs = <<>>
    /\ last = NoCall
    /\ eng = [done |-> {}, root |-> FALSE, fin |-> "none", stack |-> <<>>, err |-> "none"]
    /\ result = NULL
    /\ diag = <<>>
    /\ ast = NULL
    /\ typed = NoTyped

\* ASTContainer(): current = this, for a T that is a container.
Entered(p, t, c, id) == IF IsContainer(c) THEN SetCurrent(p, t, id) ELSE p

\* Thread t's engine reduces a bound rule over r and the lambda starts:
\* new T() allocates the node and runs the base-class constructors.  The
\* threads being alike, "a" names the one that allocates first.
ThreadNew(t, rule, r) ==
    /\ phase = "threads"
    /\ thr[t].pc = "engine"
    /\ heap = <<>> => t = "a"
    /\ ~thr[t].root
    /\ get_parse_proc(rule) # NoProc
    /\ Len(heap) < MaxNodes
    /\ \A d \in thr[t].done : d[2] <= r[2] /\ (d[2] <= r[1] \/ r[1] <= d[1])
    /\ rule = "root" => r = WholeInput
    /\ heap' = Append(heap, [NewNode(get_parse_proc(rule)) EXCEPT !.slots = <<>>, !.members = <<>>])
    /\ thr' = [Entered(thr, t, get_parse_proc(rule), Len(heap) + 1)
                 EXCEPT ![t].pc = "fields", ![t].node = Len(heap) + 1, ![t].rule = rule, ![t].r = r]
    /\ UNCHANGED <<phase, binds, handlers, current, st, errs, last, eng, result, diag, ast, typed>>

\* The registration a member makes: which field of which node, the
\* container it was appended to, and whether a node had been allocated
\* since its own.
Registration(n, k, to) == [node |-> n, field |-> k, container |-> to, later |-> Len(heap) > n]

\* new T() goes on: the next member field of the node is constructed, and
\* ASTMember() appends it to the members of the thread's `current`.
ThreadField(t) ==
    /\ phase = "threads"
    /\ thr[t].pc = "fields"
    /\ Len(heap[thr[t].node].slots) < Len(Decl(heap[thr[t].node].cls))
    /\ IF thr[t].current = NULL
       THEN /\ phase' = "aborted"
            /\ UNCHANGED <<heap, thr>>
       ELSE /\ phase' = phase
            /\ heap' = [heap EXCEPT
                          ![thr[t].node].slots =
                              Append(@, NewSlot(Decl(heap[thr[t].node].cls)[Len(heap[thr[t].node].slots) + 1])),
                          ![thr[t].current].members = Append(@, Len(heap[thr[t].node].slots) + 1)]
            /\ thr' = [thr EXCEPT ![t].reg =
                          Append(@, Registration(thr[t].node, Len(heap[thr[t].node].slots) + 1, thr[t].current))]
    /\ UNCHANGED <<binds, handlers, current, st, errs, last, eng, result, diag, ast, typed>>

\* The rest of the lambda on thread t, m being the machine construct
\* leaves: push on success, and back to the engine.
ThreadPushed(t, m) ==
    /\ heap' = m.heap
    /\ errs' = m.errs
    /\ phase' = IF m.abort THEN "aborted" ELSE phase
    /\ thr' = [thr EXCEPT ![t].pc = "engine",
                          ![t].st = Pushed(thr[t].r, thr[t].node, m),
                          ![t].done = @ \cup {thr[t].r},
                          ![t].root = (thr[t].rule = "root" /\ m.success /\ ~m.abort),
                          ![t].hist = Append(@, <<thr[t].rule, thr[t].r>>)]

\* obj->construct(range, *st, err) on thread t's own stack, once new T() has
\* returned.
ThreadConstruct(t) ==
    /\ phase = "threads"
    /\ thr[t].pc = "fields"
    /\ Len(heap[thr[t].node].slots) = Len(Decl(heap[thr[t].node].cls))
    /\ ThreadPushed(t, Construct(thr[t].node, thr[t].r, thr[t].st, heap, errs))
    /\ UNCHANGED <<binds, handlers, current, st, last, eng, result, diag, ast, typed>>

\* Thread t's engine returns and parse ends as ParseReturn does.
ThreadFinish(t, ok) ==
    /\ phase = "threads"
    /\ thr[t].pc = "engine"
    /\ ok => thr[t].root
    /\ IF ~ok
       THEN /\ heap' = DestroyAll(heap, thr[t].st)
            /\ phase' = phase
            /\ thr' = [thr EXCEPT ![t].pc = "done", ![t].fin = "fail", ![t].final = thr[t].st,
                                  ![t].st = <<>>]
       ELSE IF Len(thr[t].st) # 1
       THEN /\ phase' = "aborted"
            /\ UNCHANGED <<heap, thr>>
       ELSE /\ heap' = heap
            /\ phase' = phase
            /\ thr' = [thr EXCEPT ![t].pc = "done", ![t].fin = "ok", ![t].final = thr[t].st,
                                  ![t].st = <<>>, ![t].res = thr[t].st[1].node]
    /\ UNCHANGED <<binds, handlers, current, st, errs, last, eng, result, diag, ast, typed>>

NextThreads ==
    \E t \in Threads :
        \/ \E rule \in Rules, r \in Ranges : ThreadNew(t, rule, r)
        \/ ThreadField(t)
        \/ ThreadConstruct(t)
        \/ \E ok \in BOOLEAN : ThreadFinish(t, ok)

SpecThreads == InitThreads /\ [][NextThreads]_vars

\* ---------------------------------------------------------------- claims
\* The callback just run is a container's construct pass that returned.
Passed == last.node # NULL /\ IsContainer(last.cls) /\ ~last.abort

\* The claims of the latest pass, in the order they were made.
Claims == last.claims

\* Range q lies within range r: it begins no earlier and ends no later.
Inside(q, r) == r[1] <= q[1] /\ q[2] <= r[2]

\* An entry a claimer of range r may take as a T.
Fits(e, T, r) == Inside(e.range, r) /\ isa(heap[e.node].cls, T)

\* The length of the longest run of topmost entries of s that fit T and r.
RunLen(s, T, r) ==
    CHOOSE k \in 0..Len(s) :
        /\ \A j \in (Len(s) - k + 1)..Len(s) : Fits(s[j], T, r)
        /\ k < Len(s) => ~Fits(s[Len(s) - k], T, r)

\* The nodes of the topmost k entries of s, bottom to top.
TopNodes(s, k) == [j \in 1..k |-> s[Len(s) - k + j].node]

\* The stack s without its topmost k entries.
Below(s, k) == SubSeq(s, 1, Len(s) - k)

Required == {"ptr", "child", "list"}

\* C1: ASTContainer::construct returns failure whenever one of its required
\* members (required pointer, adopted scalar, list) returned failure during
\* the pass.
C1_FailurePropagates ==
    Passed => ((\E k \in 1..Len(Claims) : Claims[k].kind \in Required /\ ~Claims[k].ok) => ~last.ok)

\* C2 (as stated): a Sum (lhs: required Term, rhs: list of Term) reduced over
\* n >= 1 fitting Term entries t_1..t_n at the stack's tail ends with lhs
\* owning t_1 and rhs = [t_2, ..., t_n].
C2_LhsGetsFirst ==
    (last.cls = "Sum" /\ RunLen(last.before, "Term", last.r) >= 1) =>
        /\ heap[last.node].slots[1].ptr = TopNodes(last.before, RunLen(last.before, "Term", last.r))[1]
        /\ heap[last.node].slots[2].items = Tail(TopNodes(last.before, RunLen(last.before, "Term", last.r)))

\* C2 (amended): rhs, claimed first, takes all n entries in order,
\* rhs = [t_1, ..., t_n]; the claim of lhs that follows fails and lhs is
\* left owning nothing.
C2_ListTakesAll ==
    (last.cls = "Sum" /\ RunLen(last.before, "Term", last.r) >= 1) =>
        /\ heap[last.node].slots[2].items = TopNodes(last.before, RunLen(last.before, "Term", last.r))
        /\ heap[last.node].slots[1].ptr = NULL
        /\ Len(Claims) = 2 /\ Claims[2].kind = "ptr" /\ ~Claims[2].ok

C2_Witness ==
    /\ last.cls = "Sum"
    /\ RunLen(last.before, "Term", last.r) = 2
    /\ Len(heap[last.node].slots[2].items) = 2

\* A class all of whose members are required pointers.
AllRequired(c) == c \in Composite /\ \A i \in 1..Len(Decl(c)) : Decl(c)[i].kind = "ptr"

\* The n topmost entries before the pass fit the n members, in declaration order.
Matching(c) ==
    /\ Len(last.before) >= Len(Decl(c))
    /\ \A i \in 1..Len(Decl(c)) :
         Fits(last.before[Len(last.before) - Len(Decl(c)) + i], Decl(c)[i].type, last.r)

\* C3: a container of n required pointers reduced over n fitting topmost
\* entries e_1..e_n returns success, its i-th member owns e_i's node, and
\* exactly those n entries have left the stack.
C3_DeclaredOrder ==
    (last.node # NULL /\ AllRequired(last.cls) /\ Matching(last.cls)) =>
        /\ ~last.abort /\ last.ok
        /\ \A i \in 1..Len(Decl(last.cls)) :
             heap[last.node].slots[i].ptr = TopNodes(last.before, Len(Decl(last.cls)))[i]
        /\ last.after = Append(Below(last.before, Len(Decl(last.cls))), Entry(last.r, last.node))

C3_Witness ==
    /\ last.cls = "Pair"
    /\ Matching("Pair")
    /\ heap[last.node].slots[1].ptr # NULL
    /\ heap[last.node].slots[2].ptr # NULL

\* An optional member's claim that finds no node to take: the stack is
\* empty, or its tail entry does not fit.
Absent(c) == c.kind = "opt" /\ (c.before = <<>> \/ ~Fits(Back(c.before), c.type, c.r))

\* C4: an optional member's claim that finds no matching node leaves the
\* stack exactly as it was and the member unset.
C4_AbsentLeavesStack ==
    \A k \in 1..Len(Claims) :
        Absent(Claims[k]) => (Claims[k].after = Claims[k].before /\ Claims[k].got.ptr = NULL)

C4_Witness ==
    \E k \in 1..Len(Claims) :
        /\ Absent(Claims[k])
        /\ Claims[k].before # <<>>
        /\ Inside(Back(Claims[k].before).range, Claims[k].r)
        /\ Claims[k].after = Claims[k].before

\* C5: an optional member's construct returns success whenever it claims
\* no node: on an empty stack, on a tail out of range, on a tail of the
\* wrong type.
C5_AbsenceSucceeds ==
    \A k \in 1..Len(Claims) : Absent(Claims[k]) => Claims[k].ok

\* C6: a list member removes exactly the longest run of topmost entries
\* that fit its type and range, whatever lies below, and holds their nodes
\* bottom to top.
C6_ListClaimsRun ==
    \A k \in 1..Len(Claims) :
        Claims[k].kind = "list" =>
            /\ Claims[k].after = Below(Claims[k].before, RunLen(Claims[k].before, Claims[k].type, Claims[k].r))
            /\ Claims[k].got.items = TopNodes(Claims[k].before, RunLen(Claims[k].before, Claims[k].type, Claims[k].r))

C6_Witness ==
    \E k \in 1..Len(Claims) :
        /\ Claims[k].kind = "list"
        /\ Len(Claims[k].got.items) = 2
        /\ Claims[k].got.items[1] # Claims[k].got.items[2]

\* The member holds node n after its claim.
Holds(c, n) ==
    \/ c.got.ptr = n
    \/ c.got.val = n
    \/ \E j \in 1..Len(c.got.items) : c.got.items[j] = n

\* C7: for every kind of member and every range r, a claim removes no
\* entry that begins before r or ends after r, and it takes a tail entry of
\* its type whose range equals r.
C7_Containment ==
    \A k \in 1..Len(Claims) :
        /\ \A j \in (Len(Claims[k].after) + 1)..Len(Claims[k].before) :
             Inside(Claims[k].before[j].range, Claims[k].r)
        /\ Claims[k].after = SubSeq(Claims[k].before, 1, Len(Claims[k].after))
        /\ (Claims[k].before # <<>> /\ Back(Claims[k].before).range = Claims[k].r
              /\ isa(heap[Back(Claims[k].before).node].cls, Claims[k].type)) =>
             /\ Len(Claims[k].after) < Len(Claims[k].before)
             /\ Holds(Claims[k], Back(Claims[k].before).node)

C7_Witness ==
    \E a \in 1..Len(Claims), b \in 1..Len(Claims) :
        /\ Claims[a].before # <<>>
        /\ Back(Claims[a].before).range = Claims[a].r
        /\ Holds(Claims[a], Back(Claims[a].before).node)
        /\ Claims[b].before # <<>>
        /\ Back(Claims[b].before).range[2] > Claims[b].r[2]
        /\ Claims[b].after = Claims[b].before

\* C8: parse returns no result when the engine fails; when the engine
\* succeeds it returns a node only if the stack holds exactly one entry, and
\* then that entry's node; with any other stack size it returns none of the
\* entries.
C8_SoleEntryReturned ==
    /\ eng.fin = "fail" => result = NULL
    /\ (eng.fin = "ok" /\ phase = "returned") =>
         (Len(eng.stack) = 1 /\ result # NULL /\ result = eng.stack[1].node)
    /\ (eng.fin = "ok" /\ Len(eng.stack) # 1) =>
         (phase \in {"engineOk", "aborted"} /\ result = NULL)

C8_Witness ==
    /\ phase = "aborted"
    /\ eng.fin = "ok"
    /\ Len(eng.stack) = 2
    /\ Len(diag) = 2

IsRootBind(b) == b.rule = "root"

\* The BindAST declarations that name the root rule, in declaration order.
RootBinds == SelectSeq(binds, IsRootBind)

\* The stack as the construct of the latest callback left it, before the push.
Constructed == IF Claims = <<>> THEN last.before ELSE Claims[Len(Claims)].after

\* C9 (as stated): with two BindAST declarations on the root rule, a
\* successful parse leaves two entries for the root reduction and the driver
\* returns neither.
C9_TwoRootEntries ==
    (Len(RootBinds) >= 2 /\ eng.fin = "ok") =>
        /\ Len(eng.stack) >= 2
        /\ eng.stack[Len(eng.stack)].range = WholeInput
        /\ eng.stack[Len(eng.stack) - 1].range = WholeInput
        /\ phase \in {"engineOk", "aborted"}
        /\ result = NULL

\* C9 (amended): the later declaration replaces the earlier in the handler
\* table; the root reduction runs the later binding's callback alone and
\* pushes one entry, which the driver returns when it is the only one.
C9_LaterBindingWins ==
    Len(RootBinds) >= 2 =>
        /\ handlers["root"] = RootBinds[Len(RootBinds)].cls
        /\ eng.root =>
             /\ last.cls = RootBinds[Len(RootBinds)].cls
             /\ last.after = Append(Constructed, Entry(WholeInput, last.node))
        /\ (eng.fin = "ok" /\ phase = "returned") => result = last.node

C9_Witness ==
    /\ Len(RootBinds) = 2
    /\ RootBinds[1].cls # RootBinds[2].cls
    /\ phase = "returned"
    /\ result # NULL
    /\ heap[result].cls = RootBinds[2].cls

\* C10: parse<T> returns false and leaves ast as it was both when the
\* untyped parse returned no node and when the root is not a T; it returns
\* true and hands the root to ast only when the root is a T.
C10_TypedResult ==
    typed.T # "none" =>
        IF typed.node # NULL /\ isa(heap[typed.node].cls, typed.T)
        THEN typed.ret = "true" /\ ast = typed.node
        ELSE typed.ret = "false" /\ ~typed.wrote /\ ast = NULL

\* C11: when the node of a reduction callback fails construct, the callback
\* returns no-match, pushes no entry, and the new node is destroyed together
\* with every child it had claimed, so that no node is left without an owner.
C11_FailedNodeDiscarded ==
    (last.node # NULL /\ ~last.abort /\ ~last.ok) =>
        /\ last.after = Constructed
        /\ \A n \in Subtree(heap, last.node) : ~heap[n].live

\* The member slots of live nodes.
LiveSlots == UNION {{<<p, i>> : i \in DOMAIN heap[p].slots} : p \in {p \in DOMAIN heap : heap[p].live}}

\* The number of places that own node n: stack entries, pointer slots and
\* list items of live nodes, the unique_ptr parse returns, the caller's ast.
Owners(n) ==
    Cardinality({j \in DOMAIN st : st[j].node = n})
    + Cardinality({q \in LiveSlots : heap[q[1]].slots[q[2]].ptr = n})
    + Cardinality(UNION {{<<q, k>> : k \in {k \in DOMAIN heap[q[1]].slots[q[2]].items :
                                             heap[q[1]].slots[q[2]].items[k] = n}} : q \in LiveSlots})
    + (IF result = n THEN 1 ELSE 0)
    + (IF ast = n THEN 1 ELSE 0)

\* C12: through reductions, claims and the hand-over to the caller, a live
\* node has at most one owner (a stack entry, a member slot or the caller),
\* and nothing owns a destroyed node.
C12_SingleOwner ==
    \A n \in DOMAIN heap : Owners(n) <= (IF heap[n].live THEN 1 ELSE 0)

\* A tree with a claimed child has been handed to the caller.
C12_Witness ==
    /\ phase = "typedDone"
    /\ ast # NULL
    /\ Children(heap, ast) # {}
    /\ \A n \in Subtree(heap, ast) : Owners(n) = 1

\* C13 (as stated): after document-order reductions through bound
\* callbacks the stack entries ascend in source position and no two of
\* their ranges overlap.
C13_AscendingDisjoint ==
    \A i, j \in DOMAIN st : i < j => st[i].range[2] <= st[j].range[1]

\* C13 (amended): the entries stay in reduction order; an entry ends no
\* earlier than the entries below it, and it either starts after such an
\* entry has ended or encloses it.
C13_ReductionOrder ==
    \A i, j \in DOMAIN st : i < j =>
        /\ st[i].range[2] <= st[j].range[2]
        /\ \/ st[i].range[2] <= st[j].range[1]
           \/ Inside(st[i].range, st[j].range)

\* The callback of an enclosing reduction has pushed its node above an
\* entry of its own range that it did not claim.
C13_Witness ==
    /\ phase \in {"parsing", "engineOk"}
    /\ Len(st) = 2
    /\ last.node = st[2].node
    /\ st[1].range # st[2].range
    /\ Inside(st[1].range, st[2].range)

\* The classes of the hierarchy, and the `class C : public P` pairs.
Hierarchy == Classes \cup {"ASTContainer", "ASTNode"}

Extends == {<<c, Parent(c)>> : c \in Hierarchy \ {"ASTNode"}}

\* S with every class reachable through at most n superclass links.
RECURSIVE Upward(_, _)
Upward(S, n) ==
    IF n = 0 THEN S
    ELSE Upward(S \cup {e[2] : e \in {e \in Extends : e[1] \in S}}, n - 1)

\* For each class, the class itself and the classes it descends from.
Ancestry == [C \in Hierarchy |-> Upward({C}, Cardinality(Hierarchy))]

SelfAndAncestors(C) == Ancestry[C]

\* C14: in a single-inheritance chain of classes declaring PEGMATITE_RTTI,
\* get_as<T>() on an object of dynamic class C returns the object when C is
\* T or descends from T, and null otherwise (T a descendant or sibling of C
\* included).  Stated of the node allocated last, which is of every class
\* in turn.
C14_GetAsDowncast ==
    \A n \in {Len(heap)} \ {0}, T \in Hierarchy :
        get_as(heap, n, T) = IF T \in SelfAndAncestors(heap[n].cls) THEN n ELSE NULL

\* A Num has been claimed as a Term, while a Term is no Num and a Pair
\* is no Num.
C14_Witness ==
    /\ Passed
    /\ \E k \in DOMAIN Claims :
          /\ Claims[k].ok
          /\ Claims[k].type = "Term"
          /\ Claims[k].got.ptr # NULL
          /\ heap[Claims[k].got.ptr].cls = "Num"
    /\ \E n \in DOMAIN heap : heap[n].cls = "Term" /\ get_as(heap, n, "Num") = NULL
    /\ \E n \in DOMAIN heap : heap[n].cls = "Pair" /\ get_as(heap, n, "Num") = NULL /\ get_as(heap, n, "Term") = n

\* C16: a container's slot list holds its members in declaration order; a
\* construct pass makes exactly one claim attempt on each of them, last
\* declared first, and goes on to the remaining slots after a failed one.
C16_EachSlotOnceReversed ==
    Passed =>
        /\ Len(Claims) = Len(Decl(last.cls))
        /\ \A k \in DOMAIN Claims :
              /\ Claims[k].slot = Len(Decl(last.cls)) + 1 - k
              /\ Claims[k].kind = Decl(last.cls)[Claims[k].slot].kind
              /\ Claims[k].type = Decl(last.cls)[Claims[k].slot].type

\* The first slot visited of a three-slot container has failed, and a
\* slot visited after it has claimed an entry.
C16_Witness ==
    /\ Passed
    /\ Len(Claims) = 3
    /\ ~Claims[1].ok
    /\ \E k \in 2..3 : Claims[k].ok /\ Claims[k].after # Claims[k].before

\* C17: once a container's construct pass has returned, whatever its
\* result, the slot list is empty; a second call of construct on the same
\* container makes no claim attempt, leaves the stack and every slot as they
\* were, and reports nothing.
C17_SecondPassIdle ==
    /\ [](Passed /\ phase \in {"reduced", "again"} => heap[last.node].members = <<>>)
    /\ [][phase' = "again" => /\ last'.claims = last.claims
                              /\ st' = st
                              /\ heap' = heap
                              /\ errs' = errs]_vars

\* construct has been called again on a container that had claimed an
\* entry, with an entry that would fit its slot at the tail of the stack.
C17_Witness ==
    /\ phase = "again"
    /\ last.cls = "Paren"
    /\ heap[last.node].slots[1].ptr # NULL
    /\ st # <<>>
    /\ Inside(Back(st).range, last.r)

\* C18: once the member fields of a container have been instantiated, a
\* member constructed later on the same thread is not appended to that
\* container's slot list.
C18_ChannelClosed ==
    \A n \in DOMAIN heap : \A k \in DOMAIN heap[n].members : heap[n].members[k] # NoField

\* A claim by a non-optional slot that has failed on a non-empty stack.
FailedOnEntry(c) == c.kind \in {"ptr", "child", "list"} /\ ~c.ok /\ ~c.abort /\ c.before # <<>>

\* C19: a claim by a non-optional slot (required, adopted scalar or list)
\* that fails on a non-empty stack calls the error reporter exactly once,
\* with the range of the entry it failed on; claims that succeed and claims
\* by optional slots never call it.
C19_OneReportPerFailure ==
    \A k \in DOMAIN Claims :
        Claims[k].reports = IF FailedOnEntry(Claims[k])
                            THEN <<Back(Claims[k].after).range>>
                            ELSE <<>>

\* C20: every diagnostic a slot claim raises during a parse is delivered to
\* the error reporter passed to that parse invocation, and to no other.
C20_ReportsReachParseReporter ==
    phase \in {"parsing", "engineOk", "engineFail", "returned", "typedDone"} =>
        \A k \in DOMAIN errs : errs[k].to = eng.err

\* The tree under node id with the node ids left out: classes, and what
\* each slot holds.
RECURSIVE Tree(_, _)
Tree(h, id) ==
    [cls   |-> h[id].cls,
     slots |-> [i \in DOMAIN h[id].slots |->
                  [ptr   |-> IF h[id].slots[i].ptr = NULL THEN <<>> ELSE <<Tree(h, h[id].slots[i].ptr)>>,
                   items |-> [k \in DOMAIN h[id].slots[i].items |-> Tree(h, h[id].slots[i].items[k])],
                   val   |-> IF h[id].slots[i].val = NULL THEN <<>> ELSE <<h[h[id].slots[i].val].cls>>]]]

\* A stack as its ranges and trees.
Shape(h, s) == [i \in DOMAIN s |-> [range |-> s[i].range, tree |-> Tree(h, s[i].node)]]

\* The machine after one callback of a parse that runs alone: node id, whole
\* and registered, has been constructed (machine mm) and pushed.
AloneStep(r, id, mm) == [st |-> Pushed(r, id, mm), heap |-> mm.heap, errs |-> mm.errs, abort |-> mm.abort]

\* The callbacks hist[k..] run one after another by a single thread, from
\* machine m.
RECURSIVE AloneFrom(_, _, _)
AloneFrom(hist, k, m) ==
    IF k > Len(hist) \/ m.abort THEN m
    ELSE AloneFrom(hist, k + 1,
            AloneStep(hist[k][2], Len(m.heap) + 1,
                      Construct(Len(m.heap) + 1, hist[k][2], m.st,
                                Append(m.heap, NewNode(handlers[hist[k][1]])), m.errs)))

\* The same reductions parsed alone, from an empty stack and heap.
Alone(hist) == AloneFrom(hist, 1, [st |-> <<>>, heap |-> <<>>, errs |-> <<>>, abort |-> FALSE])

\* Thread t's stack, or the stack and result its parse ended with, are
\* those of machine m.
SameAs(t, m) ==
    /\ ~m.abort
    /\ Shape(heap, IF thr[t].pc = "done" THEN thr[t].final ELSE thr[t].st) = Shape(m.heap, m.st)
    /\ thr[t].fin = "ok" =>
         /\ Len(m.st) = 1
         /\ Tree(heap, thr[t].res) = Tree(m.heap, m.st[1].node)
    /\ thr[t].fin # "ok" => thr[t].res = NULL

\* C15: two threads parse at the same time over one delegate that has been
\* set up, each with its own stack and input.  Under every interleaving
\* neither changes the binding table, every member registers with the
\* container its own thread is building, and each parse's stack and result
\* are those of the same parse run alone.
C15_ThreadsIndependent ==
    /\ [][handlers' = handlers]_vars
    /\ [](\A t \in Threads : \A k \in DOMAIN thr[t].reg : thr[t].reg[k].container = thr[t].reg[k].node)
    /\ [](phase = "threads" =>
            \A t \in Threads : thr[t].pc \in {"engine", "done"} => SameAs(t, Alone(thr[t].hist)))

\* One thread's container registered a member after the other thread had
\* begun a container of its own, then claimed an entry; the other thread
\* is still constructing.
C15_Witness ==
    /\ phase = "threads"
    /\ thr["a"].pc = "engine"
    /\ Len(thr["a"].st) = 1
    /\ Children(heap, thr["a"].st[1].node) # {}
    /\ thr["b"].pc = "fields"
    /\ thr["b"].node = thr["a"].st[1].node + 1
    /\ IsContainer(heap[thr["b"].node].cls)
    /\ \E k \in DOMAIN thr["a"].reg :
          /\ thr["a"].reg[k].node = thr["a"].st[1].node
          /\ thr["a"].reg[k].later

\* A list claim whose run of fitting entries ends at an entry of stack s
\* that lies within r and is no T.
StopsAtMismatch(s, T, r) ==
    /\ RunLen(s, T, r) < Len(s)
    /\ Inside(s[Len(s) - RunLen(s, T, r)].range, r)

\* C21: when a list member's claim meets an in-range tail entry of the wrong
\* type after having claimed j >= 0 entries, its construct returns failure,
\* the j entries are not put back on the stack and stay owned by the list
\* in left-to-right order, and the mismatching entry is still the tail.
C21_NoRestoration ==
    \A k \in 1..Len(Claims) :
        (Claims[k].kind = "list" /\ StopsAtMismatch(Claims[k].before, Claims[k].type, Claims[k].r)) =>
            /\ ~Claims[k].ok
            /\ ~Claims[k].abort
            /\ Claims[k].after = Below(Claims[k].before, Len(Claims[k].before) - Len(Claims[k].after))
            /\ Claims[k].after # <<>>
            /\ Inside(Back(Claims[k].after).range, Claims[k].r)
            /\ Claims[k].type \notin SelfAndAncestors(heap[Back(Claims[k].after).node].cls)
            /\ Claims[k].got.items = TopNodes(Claims[k].before, Len(Claims[k].before) - Len(Claims[k].after))
            /\ heap[last.node].slots[Claims[k].slot].items = Claims[k].got.items
            /\ \A i \in DOMAIN Claims[k].got.items :
                  /\ heap[Claims[k].got.items[i]].live
                  /\ \A e \in DOMAIN st : st[e].node # Claims[k].got.items[i]

\* A list has failed on a mismatching entry after claiming two entries.
C21_Witness ==
    \E k \in 1..Len(Claims) :
        /\ Claims[k].kind = "list"
        /\ ~Claims[k].ok
        /\ Len(Claims[k].got.items) = 2
        /\ Claims[k].got.items[1] < Claims[k].got.items[2]
        /\ Len(Claims[k].after) = 1

\* C22: a claim by a required pointer or an adopted scalar on an empty stack
\* is fatal: the program stops there with no node claimed, no success
\* returned, nothing reported and the stack still empty; a list member on an
\* empty stack returns success with an empty list.
C22_StarvedStackFatal ==
    \A k \in 1..Len(Claims) :
        Claims[k].before = <<>> =>
            /\ Claims[k].after = <<>>
            /\ Claims[k].reports = <<>>
            /\ Claims[k].kind \in {"ptr", "child"} =>
                  /\ Claims[k].abort
                  /\ ~Claims[k].ok
                  /\ Claims[k].got.ptr = NULL
                  /\ Claims[k].got.val = NULL
                  /\ k = Len(Claims)
                  /\ last.abort
                  /\ phase = "aborted"
                  /\ st = <<>>
            /\ Claims[k].kind = "list" =>
                  /\ Claims[k].ok
                  /\ ~Claims[k].abort
                  /\ Claims[k].got.items = <<>>

\* On an empty stack a list has returned an empty list, the adopted scalar
\* declared before it has then stopped the program.
C22_Witness ==
    /\ phase = "aborted"
    /\ last.cls = "Call"
    /\ Len(Claims) = 2
    /\ Claims[1].kind = "list" /\ Claims[1].before = <<>> /\ Claims[1].ok
    /\ Claims[2].kind = "child" /\ Claims[2].before = <<>> /\ Claims[2].abort

====
